---------------------------- MODULE Spec2Model ----------------------------
(***************************************************************************)
(* Model of commands.py: the expression algebra (Type, Expression and its  *)
(* eleven variants, with evaluate and __repr__) and the command algebra    *)
(* (Variable, Assign, GoTo, Stop).                                         *)
(*                                                                         *)
(* Nodes are records carrying the fields their __init__ assigns.  Python   *)
(* values (a Constant's value, what evaluate returns) are tagged tuples:   *)
(*   <<"int", n>>            a Python int                                  *)
(*   <<"bool", b>>           a Python bool                                 *)
(*   <<"float", num, den>>   a Python float, held as the reduced fraction  *)
(*                           it approximates (den > 0)                     *)
(*   <<"z3", sort, decl, children>>   a z3 expression (ArithRef, BoolRef)  *)
(*   <<"raise", exception, detail>>   the call raised instead of returning *)
(***************************************************************************)
EXTENDS Integers, Sequences, FiniteSets, TLC

VARIABLES store,     \* the dict handed to evaluate as `variables`
          node,      \* the Expression under evaluation / rendering
          i,         \* the step index handed to evaluate
          result,    \* what the last evaluate call returned or raised
          calls,     \* how many evaluate calls have been made so far
          text,      \* what the last __repr__ call returned
          cmd,       \* the Command under inspection
          source,    \* the loaded program text: line -> parsed statement
          line,      \* the unroller's current line
          constraint, \* the assertion under which the unroller got here
          offered    \* the branches the unroller derives from cmd

vars ==
    <<store, node, i, result, calls, text, cmd, source, line, constraint,
      offered>>

\* ------------------------------------------------------------------ bounds

\* Longest per-variable sequence of step terms a store holds.
MaxSteps == 2

\* Largest line number of a command.
MaxLine == 10

\* Most evaluate calls made in a row on one node.
MaxCalls == 2

\* Number of lines of an unrolled program.
ProgLen == 3

\* ------------------------------------------------------------ class Type

BOOL == 0

NAT == 1

\* -------------------------------------------------------- Python values

PyInt(n) == <<"int", n>>

PyBool(b) == <<"bool", b>>

Raise(exc, detail) == <<"raise", exc, detail>>

IsRaise(v) == v[1] = "raise"

IsZ3(v) == v[1] = "z3"

Abs(n) == IF n < 0 THEN -n ELSE n

RECURSIVE Gcd(_, _)
Gcd(a, b) == IF b = 0 THEN a ELSE Gcd(b, a % b)

\* A float, as the reduced fraction num/den with den > 0.
PyFloat(num, den) ==
    LET s == IF den < 0 THEN -1 ELSE 1
        g == Gcd(Abs(num), Abs(den))
    IN  <<"float", (s * num) \div g, (s * den) \div g>>

\* Numerator and denominator of a Python number (int or float).
Num(v) == v[2]

Den(v) == IF v[1] = "float" THEN v[3] ELSE 1

IsPyInt(v) == v[1] = "int"

\* ------------------------------------------------------------ z3 terms

Z3(sort, decl, children) == <<"z3", sort, decl, children>>

SortOf(t) == t[2]

\* z3.Int(name): the integer constant the unroller stores for `name` at step k.
zInt(name, k) == Z3("Int", "const", <<name, k>>)

IntVal(n) == Z3("Int", "num", <<n>>)

RealVal(num, den) == Z3("Real", "num", <<num, den>>)

BoolVal(b) == Z3("Bool", "val", <<b>>)

ToReal(t) == Z3("Real", "to_real", <<t>>)

\* z3's _py2expr / float promotion: a Python operand met by a z3 operand.
Py2Expr(v) ==
    CASE IsZ3(v) -> v
      [] v[1] = "int" -> IntVal(v[2])
      [] v[1] = "float" -> RealVal(v[2], v[3])
      [] v[1] = "bool" -> BoolVal(v[2])

\* ArithSortRef.cast: an Int-sorted term used at sort Real.
CastTo(sort, t) ==
    IF SortOf(t) = sort THEN t
    ELSE IF t[3] = "num" THEN RealVal(t[4][1], 1)
    ELSE ToReal(t)

\* z3's _coerce_exprs: both operands as terms of the merged sort.  A Python
\* float met by an ArithRef becomes a RealVal (z3 4.8.8 and later), and
\* Int is a subsort of Real, so the merged sort is then Real.
CoerceExprs(a, b) ==
    LET ea == Py2Expr(a)
        eb == Py2Expr(b)
        s == IF SortOf(ea) = "Real" \/ SortOf(eb) = "Real" THEN "Real"
             ELSE SortOf(ea)
    IN  <<CastTo(s, ea), CastTo(s, eb)>>

\* ArithRef.__add__/__radd__ and friends: operands keep their source order.
Z3Arith(decl, a, b) ==
    LET c == CoerceExprs(a, b)
    IN  Z3(SortOf(c[1]), decl, c)

\* -------------------------------------------- Python operator dispatch

PyAdd(a, b) ==
    IF IsZ3(a) \/ IsZ3(b) THEN Z3Arith("+", a, b)
    ELSE IF IsPyInt(a) /\ IsPyInt(b) THEN PyInt(Num(a) + Num(b))
    ELSE PyFloat(Num(a) * Den(b) + Num(b) * Den(a), Den(a) * Den(b))

PySub(a, b) ==
    IF IsZ3(a) \/ IsZ3(b) THEN Z3Arith("-", a, b)
    ELSE IF IsPyInt(a) /\ IsPyInt(b) THEN PyInt(Num(a) - Num(b))
    ELSE PyFloat(Num(a) * Den(b) - Num(b) * Den(a), Den(a) * Den(b))

PyMul(a, b) ==
    IF IsZ3(a) \/ IsZ3(b) THEN Z3Arith("*", a, b)
    ELSE IF IsPyInt(a) /\ IsPyInt(b) THEN PyInt(Num(a) * Num(b))
    ELSE PyFloat(Num(a) * Num(b), Den(a) * Den(b))

\* `/` is true division on Python numbers: a float, or ZeroDivisionError.
PyTrueDiv(a, b) ==
    IF IsZ3(a) \/ IsZ3(b) THEN Z3Arith("/", a, b)
    ELSE IF Num(b) = 0
         THEN Raise("ZeroDivisionError",
                    IF IsPyInt(a) /\ IsPyInt(b) THEN "division by zero"
                    ELSE "float division by zero")
    ELSE PyFloat(Num(a) * Den(b), Den(a) * Num(b))

\* `==`: ExprRef.__eq__ builds a term; a Python left operand defers to the
\* z3 right operand's __eq__, which puts itself first.
PyEq(a, b) ==
    IF IsZ3(a) THEN LET c == CoerceExprs(a, b) IN Z3("Bool", "=", c)
    ELSE IF IsZ3(b) THEN LET c == CoerceExprs(b, a) IN Z3("Bool", "=", c)
    ELSE PyBool(Num(a) * Den(b) = Num(b) * Den(a))

\* `<`: ArithRef.__lt__; a Python left operand defers to the reflected
\* ArithRef.__gt__ of the right operand.
PyLt(a, b) ==
    IF IsZ3(a) THEN LET c == CoerceExprs(a, b) IN Z3("Bool", "<", c)
    ELSE IF IsZ3(b) THEN LET c == CoerceExprs(b, a) IN Z3("Bool", ">", c)
    ELSE PyBool(Num(a) * Den(b) < Num(b) * Den(a))

zAnd(a, b) == Z3("Bool", "and", <<Py2Expr(a), Py2Expr(b)>>)

zOr(a, b) == Z3("Bool", "or", <<Py2Expr(a), Py2Expr(b)>>)

zNot(a) == Z3("Bool", "not", <<Py2Expr(a)>>)

\* name in d: whether dict subscription d[name] finds an entry; when it does
\* not, d[name] raises KeyError(name).
PyDictHas(d, name) == name \in DOMAIN d

\* seq[k]: list subscription; a negative index counts from the end.
PyListGet(seq, k) ==
    LET n == Len(seq)
        j == IF k < 0 THEN k + n ELSE k
    IN  IF j < 0 \/ j >= n THEN Raise("IndexError", "list index out of range")
        ELSE seq[j + 1]

\* --------------------------------------------------- Expression variants

VariableValue(name) == [cls |-> "VariableValue", type |-> NAT, name |-> name]

Constant(expr_type, value) ==
    [cls |-> "Constant", type |-> expr_type, value |-> value]

Plus(e1, e2) == [cls |-> "Plus", type |-> NAT, e1 |-> e1, e2 |-> e2]

Minus(e1, e2) == [cls |-> "Minus", type |-> NAT, e1 |-> e1, e2 |-> e2]

Product(e1, e2) == [cls |-> "Product", type |-> NAT, e1 |-> e1, e2 |-> e2]

Division(e1, e2) == [cls |-> "Division", type |-> NAT, e1 |-> e1, e2 |-> e2]

Equal(e1, e2) == [cls |-> "Equal", type |-> BOOL, e1 |-> e1, e2 |-> e2]

Less(e1, e2) == [cls |-> "Less", type |-> BOOL, e1 |-> e1, e2 |-> e2]

And(e1, e2) == [cls |-> "And", type |-> BOOL, e1 |-> e1, e2 |-> e2]

Or(e1, e2) == [cls |-> "Or", type |-> BOOL, e1 |-> e1, e2 |-> e2]

Not(e) == [cls |-> "Not", type |-> BOOL, e |-> e]

BinaryClasses ==
    {"Plus", "Minus", "Product", "Division", "Equal", "Less", "And", "Or"}

\* ------------------------------------------------------------- evaluate

RECURSIVE evaluate(_, _, _)

\* Mutant: a composite hands its children the next step's index.
ChildIndex_Next(k) == k + 1

\* The index a composite hands to its children: the i it was given.
ChildIndex(k) == k

\* Mutant: a name the store does not bind yields the base class's default
\* term Int('none') instead of failing.
VariableValue_evaluate_Default(self, variables, k) ==
    IF PyDictHas(variables, self.name)
    THEN PyListGet(variables[self.name], k)
    ELSE zInt("none", 0)

\* Mutant: the leaf reads the term of the step after the one asked for.
VariableValue_evaluate_NextStep(self, variables, k) ==
    IF PyDictHas(variables, self.name)
    THEN PyListGet(variables[self.name], k + 1)
    ELSE Raise("KeyError", self.name)

\* Mutant: the node keeps a hidden cursor that every call advances.
VariableValue_evaluate_Cursor(self, variables, k) ==
    IF PyDictHas(variables, self.name)
    THEN PyListGet(variables[self.name], k + calls)
    ELSE Raise("KeyError", self.name)

VariableValue_evaluate(self, variables, k) ==
    IF PyDictHas(variables, self.name)
    THEN PyListGet(variables[self.name], k)
    ELSE Raise("KeyError", self.name)

Constant_evaluate(self, variables, k) == self.value

\* In `a <op> b` the left operand is evaluated first; if it raises, the
\* exception leaves before the right operand is evaluated.
Plus_evaluate(self, variables, k) ==
    LET a == evaluate(self.e1, variables, ChildIndex(k))
    IN  IF IsRaise(a) THEN a
        ELSE LET b == evaluate(self.e2, variables, ChildIndex(k))
             IN  IF IsRaise(b) THEN b ELSE PyAdd(a, b)

Minus_evaluate(self, variables, k) ==
    LET a == evaluate(self.e1, variables, ChildIndex(k))
    IN  IF IsRaise(a) THEN a
        ELSE LET b == evaluate(self.e2, variables, ChildIndex(k))
             IN  IF IsRaise(b) THEN b ELSE PySub(a, b)

Product_evaluate(self, variables, k) ==
    LET a == evaluate(self.e1, variables, ChildIndex(k))
    IN  IF IsRaise(a) THEN a
        ELSE LET b == evaluate(self.e2, variables, ChildIndex(k))
             IN  IF IsRaise(b) THEN b ELSE PyMul(a, b)

Division_evaluate(self, variables, k) ==
    LET a == evaluate(self.e1, variables, ChildIndex(k))
    IN  IF IsRaise(a) THEN a
        ELSE LET b == evaluate(self.e2, variables, ChildIndex(k))
             IN  IF IsRaise(b) THEN b ELSE PyTrueDiv(a, b)

Equal_evaluate(self, variables, k) ==
    LET a == evaluate(self.e1, variables, ChildIndex(k))
    IN  IF IsRaise(a) THEN a
        ELSE LET b == evaluate(self.e2, variables, ChildIndex(k))
             IN  IF IsRaise(b) THEN b ELSE PyEq(a, b)

Less_evaluate(self, variables, k) ==
    LET a == evaluate(self.e1, variables, ChildIndex(k))
    IN  IF IsRaise(a) THEN a
        ELSE LET b == evaluate(self.e2, variables, ChildIndex(k))
             IN  IF IsRaise(b) THEN b ELSE PyLt(a, b)

And_evaluate(self, variables, k) ==
    LET a == evaluate(self.e1, variables, ChildIndex(k))
    IN  IF IsRaise(a) THEN a
        ELSE LET b == evaluate(self.e2, variables, ChildIndex(k))
             IN  IF IsRaise(b) THEN b ELSE zAnd(a, b)

Or_evaluate(self, variables, k) ==
    LET a == evaluate(self.e1, variables, ChildIndex(k))
    IN  IF IsRaise(a) THEN a
        ELSE LET b == evaluate(self.e2, variables, ChildIndex(k))
             IN  IF IsRaise(b) THEN b ELSE zOr(a, b)

Not_evaluate(self, variables, k) ==
    LET a == evaluate(self.e, variables, ChildIndex(k))
    IN  IF IsRaise(a) THEN a ELSE zNot(a)

\* self.evaluate(variables, i): dispatch on the node's class.
evaluate(self, variables, k) ==
    CASE self.cls = "VariableValue" -> VariableValue_evaluate(self, variables, k)
      [] self.cls = "Constant" -> Constant_evaluate(self, variables, k)
      [] self.cls = "Plus" -> Plus_evaluate(self, variables, k)
      [] self.cls = "Minus" -> Minus_evaluate(self, variables, k)
      [] self.cls = "Product" -> Product_evaluate(self, variables, k)
      [] self.cls = "Division" -> Division_evaluate(self, variables, k)
      [] self.cls = "Equal" -> Equal_evaluate(self, variables, k)
      [] self.cls = "Less" -> Less_evaluate(self, variables, k)
      [] self.cls = "And" -> And_evaluate(self, variables, k)
      [] self.cls = "Or" -> Or_evaluate(self, variables, k)
      [] self.cls = "Not" -> Not_evaluate(self, variables, k)

\* ------------------------------------------------------------ __repr__

Digits == <<"0", "1", "2", "3", "4", "5", "6", "7", "8", "9">>

\* str(n) for an int.
RECURSIVE PyStrNat(_)
PyStrNat(n) ==
    IF n < 10 THEN Digits[n + 1]
    ELSE PyStrNat(n \div 10) \o Digits[(n % 10) + 1]

PyStrInt(n) == IF n < 0 THEN "-" \o PyStrNat(-n) ELSE PyStrNat(n)

\* str(value) for a Constant's value: an int or a bool.
PyStr(v) ==
    IF v[1] = "bool" THEN (IF v[2] THEN "True" ELSE "False")
    ELSE PyStrInt(v[2])

RECURSIVE repr(_)

VariableValue_repr(self) == self.name

Constant_repr(self) == PyStr(self.value)

Plus_repr(self) == "(" \o repr(self.e1) \o " + " \o repr(self.e2) \o ")"

Minus_repr(self) == "(" \o repr(self.e1) \o " - " \o repr(self.e2) \o ")"

Product_repr(self) == "(" \o repr(self.e1) \o " * " \o repr(self.e2) \o ")"

Division_repr(self) == "(" \o repr(self.e1) \o " / " \o repr(self.e2) \o ")"

Equal_repr(self) == "(" \o repr(self.e1) \o " == " \o repr(self.e2) \o ")"

Less_repr(self) == "(" \o repr(self.e1) \o " < " \o repr(self.e2) \o ")"

And_repr(self) == "(" \o repr(self.e1) \o " && " \o repr(self.e2) \o ")"

Or_repr(self) == "(" \o repr(self.e1) \o " || " \o repr(self.e2) \o ")"

Not_repr(self) == "!(" \o repr(self.e) \o ")"

\* ------------------------------------------------------------- commands

Variable(name) == [cls |-> "Variable", name |-> name]

Assign(ln, var, expr) ==
    [cls |-> "Assign", line |-> ln, var |-> var, expr |-> expr]

\* Mutant: __init__ hands the jump target to Command.__init__ as the line.
GoTo_Swapped(ln, condition, other_line) ==
    [cls |-> "GoTo", line |-> other_line, condition |-> condition,
     other_line |-> ln]

GoTo(ln, condition, other_line) ==
    [cls |-> "GoTo", line |-> ln, condition |-> condition,
     other_line |-> other_line]

Stop(ln) == [cls |-> "Stop", line |-> ln]

Variable_repr(self) == self.name

Assign_repr(self) ==
    PyStrInt(self.line) \o ": " \o self.var.name \o " = " \o repr(self.expr)

\* Mutant: the two line numbers of a GoTo are rendered in each other's place.
GoTo_repr_Swapped(self) ==
    PyStrInt(self.other_line) \o ": " \o repr(self.condition) \o " => goto "
        \o PyStrInt(self.line)

GoTo_repr(self) ==
    PyStrInt(self.line) \o ": " \o repr(self.condition) \o " => goto "
        \o PyStrInt(self.other_line)

Stop_repr(self) == PyStrInt(self.line) \o ": stop"

\* repr(obj) / f'{obj}': dispatch on the object's class.
repr(self) ==
    CASE self.cls = "VariableValue" -> VariableValue_repr(self)
      [] self.cls = "Constant" -> Constant_repr(self)
      [] self.cls = "Plus" -> Plus_repr(self)
      [] self.cls = "Minus" -> Minus_repr(self)
      [] self.cls = "Product" -> Product_repr(self)
      [] self.cls = "Division" -> Division_repr(self)
      [] self.cls = "Equal" -> Equal_repr(self)
      [] self.cls = "Less" -> Less_repr(self)
      [] self.cls = "And" -> And_repr(self)
      [] self.cls = "Or" -> Or_repr(self)
      [] self.cls = "Not" -> Not_repr(self)
      [] self.cls = "Variable" -> Variable_repr(self)
      [] self.cls = "Assign" -> Assign_repr(self)
      [] self.cls = "GoTo" -> GoTo_repr(self)
      [] self.cls = "Stop" -> Stop_repr(self)

\* ------------------------------------------------------------- inputs
\* The expression trees handed to evaluate and __repr__: every well-formed
\* tree of depth at most two whose deeper operand sits beside a leaf.  The
\* arithmetic and relational variants take NAT operands, And, Or and Not
\* take BOOL operands, and a Constant's value agrees with its tag.

Names == {"x", "y", "z"}

NatValues == {0, 1, 2}

NatLeaves ==
    {VariableValue(n) : n \in Names} \cup {Constant(NAT, PyInt(v)) : v \in NatValues}

BoolLeaves == {Constant(BOOL, PyBool(b)) : b \in BOOLEAN}

Arith(a, b) == {Plus(a, b), Minus(a, b), Product(a, b), Division(a, b)}

Rel(a, b) == {Equal(a, b), Less(a, b)}

Conn(a, b) == {And(a, b), Or(a, b)}

Nat1 == UNION {Arith(a, b) : a \in NatLeaves, b \in NatLeaves}

Bool1 ==
    UNION {Rel(a, b) : a \in NatLeaves, b \in NatLeaves}
    \cup UNION {Conn(a, b) : a \in BoolLeaves, b \in BoolLeaves}
    \cup {Not(a) : a \in BoolLeaves}

Nat2 ==
    UNION {Arith(a, b) \cup Arith(b, a) : a \in Nat1, b \in NatLeaves}

Bool2 ==
    UNION {Rel(a, b) \cup Rel(b, a) : a \in Nat1, b \in NatLeaves}
    \cup UNION {Conn(a, b) \cup Conn(b, a) : a \in Bool1, b \in BoolLeaves}
    \cup {Not(a) : a \in Bool1}

\* Well-formed expression trees: every child slot holds a node of the tag
\* its parent expects.
Trees == NatLeaves \cup BoolLeaves \cup Nat1 \cup Bool1 \cup Nat2 \cup Bool2

\* A store as the unroller builds it: name -> list of z3 Int constants, one
\* per populated step.
StoreOf(lens) ==
    [n \in DOMAIN lens |-> [k \in 1..lens[n] |-> zInt(n, k - 1)]]

\* "x" holds every step, "y" fewer (possibly none), "z" is never bound.
Stores ==
    {StoreOf([n \in {"x", "y"} |-> IF n = "x" THEN MaxSteps ELSE l]) :
        l \in 0..MaxSteps}

Indices == (0 - MaxSteps - 1)..MaxSteps

NotCalled == <<"none">>

NoNode == [cls |-> "None"]

NoCmd == [cls |-> "None"]

\* Commands as a front end builds them: line numbers, targets, and
\* expressions of depth at most one.
Lines == 0..MaxLine

Commands ==
    {Assign(l, Variable(n), e) :
        l \in Lines, n \in Names, e \in NatLeaves \cup Nat1}
    \cup {GoTo(l, c, t) : l \in Lines, c \in BoolLeaves \cup Bool1, t \in Lines}
    \cup {Stop(l) : l \in Lines}

\* ---------------------------------------------------------------- Spec
\* evaluate called on one expression tree against one store at one step
\* index.

Init ==
    /\ store \in Stores
    /\ node \in Trees
    /\ i \in Indices
    /\ result = NotCalled
    /\ calls = 0
    /\ text = ""
    /\ cmd = NoCmd
    /\ source = <<>>
    /\ line = 0
    /\ constraint = NotCalled
    /\ offered = {}

Evaluate ==
    /\ result' = evaluate(node, store, i)
    /\ calls' = 1
    /\ UNCHANGED <<store, node, i, text, cmd, source, line, constraint, offered>>

Next == Evaluate

Spec == Init /\ [][Next]_vars

\* ---------------------------------------------------------- SpecRepeat
\* evaluate called up to MaxCalls times on the same node, store and index,
\* with a __repr__ call before, between or after.

EvaluateAgain ==
    /\ calls < MaxCalls
    /\ result' = evaluate(node, store, i)
    /\ calls' = calls + 1
    /\ UNCHANGED <<store, node, i, text, cmd, source, line, constraint, offered>>

Repr ==
    /\ text = ""
    /\ text' = repr(node)
    /\ UNCHANGED <<store, node, i, result, calls, cmd, source, line, constraint,
                   offered>>

NextRepeat == EvaluateAgain \/ Repr

SpecRepeat == Init /\ [][NextRepeat]_vars

\* ------------------------------------------------------------ SpecRepr
\* __repr__ called on an expression tree or on a command, with no store.

InitRepr ==
    /\ \/ node \in Trees /\ cmd = NoCmd
       \/ node = NoNode /\ cmd \in Commands
    /\ store = <<>>
    /\ i = 0
    /\ result = NotCalled
    /\ calls = 0
    /\ text = ""
    /\ source = <<>>
    /\ line = 0
    /\ constraint = NotCalled
    /\ offered = {}

ReprExpression ==
    /\ node # NoNode
    /\ text' = repr(node)
    /\ UNCHANGED <<store, node, i, result, calls, cmd, source, line, constraint,
                   offered>>

ReprCommand ==
    /\ cmd # NoCmd
    /\ text' = repr(cmd)
    /\ UNCHANGED <<store, node, i, result, calls, cmd, source, line, constraint,
                   offered>>

NextRepr == ReprExpression \/ ReprCommand

SpecRepr == InitRepr /\ [][NextRepr]_vars

\* ---------------------------------------------------------- SpecUnroll
\* The command state machine of the unroller that consumes the commands:
\* a loaded program is walked from its entry line, one step index per
\* command, every offered branch explored.

ProgLines == 3..(ProgLen + 2)

\* A parsed statement, before the front end builds its Command.
Statements ==
    {[kind |-> "assign", var |-> v, expr |-> e] :
        v \in {"x", "y"},
        e \in {Plus(VariableValue("x"), Constant(NAT, PyInt(1))),
               VariableValue("y")}}
    \cup {[kind |-> "goto", condition |-> c, target |-> t] :
            c \in {Less(VariableValue("x"), Constant(NAT, PyInt(2))),
                   Equal(VariableValue("y"), Constant(NAT, PyInt(0)))},
            t \in ProgLines}
    \cup {[kind |-> "stop"]}

\* The front end's construction of the Command of line ln.
Build(ln, stmt) ==
    CASE stmt.kind = "assign" -> Assign(ln, Variable(stmt.var), stmt.expr)
      [] stmt.kind = "goto" -> GoTo(ln, stmt.condition, stmt.target)
      [] stmt.kind = "stop" -> Stop(ln)

\* The program loader's table: line -> exactly one Command.
Load(src) == [l \in DOMAIN src |-> Build(l, src[l])]

CommandAt(src, ln) == IF ln \in DOMAIN src THEN Load(src)[ln] ELSE NoCmd

\* The store the unroller holds at step k: for every program variable one
\* fresh z3 Int per step 0..k+1.
StoreAt(k) == StoreOf([n \in {"x", "y"} |-> k + 2])

\* The assertion of an assignment at step k: next step's term of the target
\* equals the expression's term at step k.
AssignAssertion(c, st, k) ==
    LET rhs == evaluate(c.expr, st, k)
    IN  IF ~PyDictHas(st, c.var.name) THEN Raise("KeyError", c.var.name)
        ELSE IF IsRaise(rhs) THEN rhs
        ELSE PyEq(PyListGet(st[c.var.name], k + 1), rhs)

\* The branches the unroller offers for command c at step k: where each
\* continues and what it asserts.
Branches(c, st, k) ==
    CASE c.cls = "Assign" ->
            {[to |-> c.line + 1, assert |-> AssignAssertion(c, st, k)]}
      [] c.cls = "GoTo" ->
            LET cond == evaluate(c.condition, st, k)
            IN  {[to |-> c.other_line, assert |-> cond],
                 [to |-> c.line + 1,
                  assert |-> IF IsRaise(cond) THEN cond ELSE zNot(cond)]}
      [] c.cls = "Stop" -> {}
      [] OTHER -> {}

InitUnroll ==
    /\ source \in [ProgLines -> Statements]
    /\ line \in ProgLines
    /\ i = 0
    /\ store = StoreAt(0)
    /\ cmd = CommandAt(source, line)
    /\ offered = Branches(cmd, store, i)
    /\ constraint = NotCalled
    /\ node = NoNode
    /\ result = NotCalled
    /\ calls = 0
    /\ text = ""

\* One unrolling step along one offered branch.
Step ==
    /\ i < MaxSteps
    /\ \E b \in offered :
          /\ ~IsRaise(b.assert)
          /\ line' = b.to
          /\ constraint' = b.assert
    /\ i' = i + 1
    /\ store' = StoreAt(i')
    /\ cmd' = CommandAt(source, line')
    /\ offered' = Branches(cmd', store', i')
    /\ UNCHANGED <<source, node, result, calls, text>>

NextUnroll == Step

SpecUnroll == InitUnroll /\ [][NextUnroll]_vars

\* ---------------------------------------------------- claim vocabulary

Called == calls > 0

IsBinary(t) == t.cls \in BinaryClasses

\* The names an expression references through its VariableValue leaves.
RECURSIVE Refs(_)
Refs(t) ==
    CASE t.cls = "VariableValue" -> {t.name}
      [] t.cls = "Constant" -> {}
      [] t.cls = "Not" -> Refs(t.e)
      [] OTHER -> Refs(t.e1) \cup Refs(t.e2)

\* The store binds every name the tree references.
AllBound(t, st) == Refs(t) \subseteq DOMAIN st

\* k indexes a populated step of every sequence the tree references.
ValidIndex(t, st, k) ==
    /\ k >= 0
    /\ \A n \in Refs(t) \cap DOMAIN st : k < Len(st[n])

IsError(v, exc) == v[1] = "raise" /\ v[2] = exc

UnboundVariable(v) == IsError(v, "KeyError")

StepIndexOutOfRange(v) == IsError(v, "IndexError")

\* A Boolean-valued result: a Python bool or a Bool-sorted z3 term.
BooleanValued(v) == v[1] = "bool" \/ (v[1] = "z3" /\ SortOf(v) = "Bool")

\* An integer-valued result: a Python int, an Int-sorted z3 term, or a float
\* whose value is a whole number.
IntegerValued(v) ==
    \/ v[1] = "int"
    \/ v[1] = "z3" /\ SortOf(v) = "Int"
    \/ v[1] = "float" /\ v[3] = 1

\* The combinator each variant declares, on two child results.
Combinator(cls, a, b) ==
    CASE cls = "Plus" -> PyAdd(a, b)
      [] cls = "Minus" -> PySub(a, b)
      [] cls = "Product" -> PyMul(a, b)
      [] cls = "Division" -> PyTrueDiv(a, b)
      [] cls = "Equal" -> PyEq(a, b)
      [] cls = "Less" -> PyLt(a, b)
      [] cls = "And" -> zAnd(a, b)
      [] cls = "Or" -> zOr(a, b)

\* ------------------------------------------------------------- claims

\* C1: for a well-formed tree, a store binding every referenced name and a
\* valid step index, what evaluate returns is Boolean-valued when the node's
\* tag is BOOL and integer-valued when it is NAT.  (Stated of the calls that
\* return; a call that raises is C5's subject.)
C1_TypeSoundness ==
    (/\ Called
     /\ AllBound(node, store)
     /\ ValidIndex(node, store, i)
     /\ ~IsRaise(result)) =>
        /\ node.type = BOOL => BooleanValued(result)
        /\ node.type = NAT => IntegerValued(result)

\* C2: a binary node's result is its declared combinator applied to the
\* results of e1 and e2, evaluated in that order at the node's own index (a
\* failure of e1 leaves before e2 is evaluated, a failure of e2 before the
\* combinator is applied); Not's result is the negation of its operand's.
C2_StructuralComposition ==
    Called =>
        /\ IsBinary(node) =>
              LET r1 == evaluate(node.e1, store, i)
                  r2 == evaluate(node.e2, store, i)
              IN  result = IF IsRaise(r1) THEN r1
                           ELSE IF IsRaise(r2) THEN r2
                           ELSE Combinator(node.cls, r1, r2)
        /\ node.cls = "Not" =>
              LET r == evaluate(node.e, store, i)
              IN  result = IF IsRaise(r) THEN r ELSE zNot(r)

\* C2 witness: a binary node over a composite child was evaluated to a term.
C2_Witness ==
    /\ Called
    /\ node = Less(Minus(VariableValue("x"), VariableValue("y")),
                   Constant(NAT, PyInt(2)))
    /\ i = 0
    /\ result = Z3("Bool", "<",
                   <<Z3("Int", "-", <<zInt("x", 0), zInt("y", 0)>>), IntVal(2)>>)

\* Evaluation of t reaches an unbound VariableValue leaf: no operand
\* evaluated before that leaf (left to right) has failed.
RECURSIVE ReachesUnbound(_, _, _)
ReachesUnbound(t, st, k) ==
    CASE t.cls = "VariableValue" -> t.name \notin DOMAIN st
      [] t.cls = "Constant" -> FALSE
      [] t.cls = "Not" -> ReachesUnbound(t.e, st, k)
      [] OTHER ->
            \/ ReachesUnbound(t.e1, st, k)
            \/ /\ ~IsRaise(evaluate(t.e1, st, k))
               /\ ReachesUnbound(t.e2, st, k)

\* C3 as claimed: evaluating a tree that contains a VariableValue leaf whose
\* name the store does not bind fails with UnboundVariable, at every step
\* index and whatever the tree's other operands are.
C3_UnboundAlways ==
    (Called /\ ~AllBound(node, store)) => UnboundVariable(result)

\* C3 amended: an unbound VariableValue leaf fails with UnboundVariable
\* (naming the leaf) at every step index and never yields a term; a
\* composite containing such a leaf always fails too, with UnboundVariable
\* exactly when evaluation reaches the leaf, and otherwise with the failure
\* of the operand that failed before it.
C3_UnboundLookupFailure ==
    (Called /\ ~AllBound(node, store)) =>
        /\ IsRaise(result)
        /\ node.cls = "VariableValue" => result = Raise("KeyError", node.name)
        /\ ReachesUnbound(node, store, i) <=> UnboundVariable(result)
        /\ UnboundVariable(result) =>
              result[3] \in Refs(node) \ DOMAIN store

\* C3 witness: a composite whose right operand is unbound and whose left
\* operand, a bound variable read outside its sequence, failed first.
C3_Witness ==
    /\ Called
    /\ node = Plus(VariableValue("y"), VariableValue("z"))
    /\ "y" \in DOMAIN store
    /\ i >= Len(store["y"])
    /\ StepIndexOutOfRange(result)

\* C4: for a bound name and an index outside 0..len-1 (i >= len or i < 0),
\* VariableValue.evaluate fails with StepIndexOutOfRange and returns no
\* term of another step.
C4_StepIndexOutOfRange ==
    (/\ Called
     /\ node.cls = "VariableValue"
     /\ node.name \in DOMAIN store
     /\ (i < 0 \/ i >= Len(store[node.name]))) =>
        StepIndexOutOfRange(result)

\* C5: for NAT operands, a store binding every referenced name and a valid
\* step index, Division.evaluate never fails: it returns a quotient built
\* from the two child results, whatever the divisor is.
C5_DivisionUnguarded ==
    (/\ Called
     /\ node.cls = "Division"
     /\ AllBound(node, store)
     /\ ValidIndex(node, store, i)
     /\ ~IsRaise(evaluate(node.e1, store, i))
     /\ ~IsRaise(evaluate(node.e2, store, i))) =>
        ~IsRaise(result)

Rendered == text # ""

\* The operator symbol each binary variant renders between its operands.
OpSymbol(cls) ==
    CASE cls = "Plus" -> "+"
      [] cls = "Minus" -> "-"
      [] cls = "Product" -> "*"
      [] cls = "Division" -> "/"
      [] cls = "Equal" -> "=="
      [] cls = "Less" -> "<"
      [] cls = "And" -> "&&"
      [] cls = "Or" -> "||"

\* C7: Not(e) renders as `!` followed by one parenthesised rendering of its
\* operand, with no second pair of parentheses around a binary operand; the
\* rendering of Not(Less(VariableValue("x"), Constant(NAT, 0))) is exactly
\* `!(x < 0)`.
C7_NotRendering ==
    (Rendered /\ node.cls = "Not") =>
        /\ text = "!" \o (IF IsBinary(node.e) THEN repr(node.e)
                          ELSE "(" \o repr(node.e) \o ")")
        /\ node = Not(Less(VariableValue("x"), Constant(NAT, PyInt(0))))
              => text = "!(x < 0)"

\* C8: a binary expression renders as `(<left> <op> <right>)`, a
\* VariableValue as its name, a Constant as its value, Assign as
\* `<line>: <var> = <expr>`, GoTo as `<line>: <condition> => goto
\* <other_line>` and Stop as `<line>: stop`, with no store at hand; in
\* particular `(2 + x)` and `3: (y == 0) => goto 10`.
C8_Rendering ==
    Rendered =>
        /\ store = <<>>
        /\ node # NoNode =>
              /\ IsBinary(node) =>
                    text = "(" \o repr(node.e1) \o " " \o OpSymbol(node.cls)
                               \o " " \o repr(node.e2) \o ")"
              /\ node.cls = "VariableValue" => text = node.name
              /\ node = Constant(NAT, PyInt(2)) => text = "2"
              /\ node = Constant(NAT, PyInt(0)) => text = "0"
              /\ node = Plus(Constant(NAT, PyInt(2)), VariableValue("x"))
                    => text = "(2 + x)"
              /\ node = Or(Constant(BOOL, PyBool(TRUE)),
                           Less(VariableValue("y"), VariableValue("z")))
                    => text = "(True || (y < z))"
        /\ cmd.cls = "Assign" =>
              text = PyStrInt(cmd.line) \o ": " \o cmd.var.name \o " = "
                         \o repr(cmd.expr)
        /\ cmd.cls = "GoTo" =>
              text = PyStrInt(cmd.line) \o ": " \o repr(cmd.condition)
                         \o " => goto " \o PyStrInt(cmd.other_line)
        /\ cmd.cls = "Stop" => text = PyStrInt(cmd.line) \o ": stop"
        /\ cmd = GoTo(3, Equal(VariableValue("y"), Constant(NAT, PyInt(0))), 10)
              => text = "3: (y == 0) => goto 10"
        /\ cmd = Assign(5, Variable("x"),
                        Plus(VariableValue("x"), Constant(NAT, PyInt(1))))
              => text = "5: x = (x + 1)"
        /\ cmd = Stop(10) => text = "10: stop"

\* C8 witness: the GoTo of the example has been rendered.
C8_Witness ==
    /\ cmd = GoTo(3, Equal(VariableValue("y"), Constant(NAT, PyInt(0))), 10)
    /\ text = "3: (y == 0) => goto 10"

\* The lines the offered branches continue at.
OfferedLines == {b.to : b \in offered}

\* C9: at line L of a loaded program (unique lines, existing targets) the
\* unroller offers no successor for Stop, exactly L+1 for Assign and
\* exactly L+1 and T for GoTo(L, condition, T), whatever the condition; the
\* branch to T asserts condition.evaluate(store, i), the branch to L+1 its
\* negation; and every step taken follows one of the offered branches, so
\* no trace continues past a Stop.
C9_BranchCompleteness ==
    /\ [](line \in DOMAIN source =>
            LET stmt == source[line]
            IN  /\ cmd.line = line
                /\ stmt.kind = "stop" => offered = {}
                /\ stmt.kind = "assign" => OfferedLines = {line + 1}
                /\ stmt.kind = "goto" =>
                      LET cond == evaluate(stmt.condition, store, i)
                      IN  offered =
                            {[to |-> stmt.target, assert |-> cond],
                             [to |-> line + 1,
                              assert |-> Z3("Bool", "not", <<cond>>)]})
    /\ [][/\ line \in DOMAIN source
          /\ source[line].kind # "stop"
          /\ line' \in {line + 1} \cup
                (IF source[line].kind = "goto" THEN {source[line].target}
                 ELSE {})]_vars

\* C9 witness: the jump branch of a GoTo was taken to a Stop, where the
\* trace ends.
C9_Witness ==
    /\ i > 0
    /\ cmd.cls = "Stop"
    /\ constraint = Z3("Bool", "<", <<zInt("x", i - 1), IntVal(2)>>)
    /\ offered = {}

\* The (name, step) pairs of the store terms a value is built from.
RECURSIVE StoreTerms(_)
StoreTerms(v) ==
    IF v[1] # "z3" THEN {}
    ELSE IF v[3] = "const" THEN {v[4]}
    ELSE IF v[3] \in {"num", "val"} THEN {}
    ELSE UNION {StoreTerms(v[4][j]) : j \in 1..Len(v[4])}

\* C10: for Assign(line, var, expr) at step i the command's fields yield
\* the constraint store[var.name][i+1] = expr.evaluate(store, i), whose
\* right-hand side is built from step-i terms only (also when expr reads
\* var itself), the store's entries staying what they were; for
\* Assign(5, Variable("x"), Plus(VariableValue("x"), Constant(NAT, 1))) at
\* i = 0 it is store["x"][1] = store["x"][0] + 1.
C10_AssignLinksSteps ==
    /\ \A n \in DOMAIN store :
          \A k \in 1..Len(store[n]) : store[n][k] = zInt(n, k - 1)
    /\ (line \in DOMAIN source /\ source[line].kind = "assign") =>
          LET stmt == source[line]
              rhs == evaluate(stmt.expr, store, i)
          IN  /\ cmd.var.name = stmt.var
              /\ cmd.expr = stmt.expr
              /\ offered =
                    {[to |-> line + 1,
                      assert |-> Z3("Bool", "=", <<zInt(stmt.var, i + 1), rhs>>)]}
              /\ \A t \in StoreTerms(rhs) : t[2] = i
              /\ (/\ line = 5
                  /\ i = 0
                  /\ stmt.var = "x"
                  /\ stmt.expr = Plus(VariableValue("x"), Constant(NAT, PyInt(1))))
                    => offered =
                         {[to |-> 6,
                           assert |->
                             Z3("Bool", "=",
                                <<zInt("x", 1),
                                  Z3("Int", "+", <<zInt("x", 0), IntVal(1)>>)>>)]}

\* C10 witness: the unroller stepped over the example assignment from line 5
\* at step 0 under the constraint derived from it.
C10_Witness ==
    /\ line = 6
    /\ i = 1
    /\ source[5] = [kind |-> "assign", var |-> "x",
                    expr |-> Plus(VariableValue("x"), Constant(NAT, PyInt(1)))]
    /\ constraint = Z3("Bool", "=",
                       <<zInt("x", 1),
                         Z3("Int", "+", <<zInt("x", 0), IntVal(1)>>)>>)

=============================================================================
